---- MODULE Spec2Model ----
(***************************************************************************)
(* Time-window bucket boundaries of src/Functions/FunctionsTimeWindow.h:   *)
(* ToStartOfTransform<unit>::execute and AddTime<unit>::execute, and the   *)
(* tumbling and hopping windows built from them.                           *)
(*                                                                         *)
(* The C++ integer types are 16, 32 and 64 bits wide, wider than the       *)
(* integers of the model checker.  An integer is therefore held as a       *)
(* two's-complement number of 128 bits, a tuple of 8 limbs of 16 bits,     *)
(* least significant limb first.  Every 64-bit value and every product of  *)
(* a 64-bit value with a scale multiplier or an interval length fits, so   *)
(* Add, Sub and Mul are exact on the values the model meets, and the C++   *)
(* conversions (ToUInt64, ToInt64, ToUInt32, ToInt32, ToUInt16) are what   *)
(* wraps them to the width of the type.                                    *)
(***************************************************************************)
EXTENDS Integers, Sequences, FiniteSets, TLC

Base == 2^16

Half == 2^15

Zero == <<0, 0, 0, 0, 0, 0, 0, 0>>

One == <<1, 0, 0, 0, 0, 0, 0, 0>>

\* a + b + c (c a carry of 0 or 1), modulo 2^128
AddCarry(a, b, c) ==
    LET s1 == a[1] + b[1] + c
        s2 == a[2] + b[2] + (s1 \div Base)
        s3 == a[3] + b[3] + (s2 \div Base)
        s4 == a[4] + b[4] + (s3 \div Base)
        s5 == a[5] + b[5] + (s4 \div Base)
        s6 == a[6] + b[6] + (s5 \div Base)
        s7 == a[7] + b[7] + (s6 \div Base)
        s8 == a[8] + b[8] + (s7 \div Base)
    IN  <<s1 % Base, s2 % Base, s3 % Base, s4 % Base,
          s5 % Base, s6 % Base, s7 % Base, s8 % Base>>

Add(a, b) == AddCarry(a, b, 0)

Not(a) ==
    <<Base - 1 - a[1], Base - 1 - a[2], Base - 1 - a[3], Base - 1 - a[4],
      Base - 1 - a[5], Base - 1 - a[6], Base - 1 - a[7], Base - 1 - a[8]>>

Neg(a) == AddCarry(Not(a), Zero, 1)

Sub(a, b) == AddCarry(a, Not(b), 1)

\* the integer n of the model checker (|n| < 2^31) as a 128-bit integer
Wide(n) ==
    IF n >= 0 THEN <<n % Base, n \div Base, 0, 0, 0, 0, 0, 0>>
    ELSE Neg(<<(-n) % Base, (-n) \div Base, 0, 0, 0, 0, 0, 0>>)

\* 2^k, 0 <= k < 127
Pow2(k) ==
    LET l(i) == IF i = (k \div 16) + 1 THEN 2^(k % 16) ELSE 0
    IN  <<l(1), l(2), l(3), l(4), l(5), l(6), l(7), l(8)>>

IsNeg(a) == a[8] >= Half

\* a < b, both read as unsigned
ULess(a, b) ==
    IF a[8] # b[8] THEN a[8] < b[8]
    ELSE IF a[7] # b[7] THEN a[7] < b[7]
    ELSE IF a[6] # b[6] THEN a[6] < b[6]
    ELSE IF a[5] # b[5] THEN a[5] < b[5]
    ELSE IF a[4] # b[4] THEN a[4] < b[4]
    ELSE IF a[3] # b[3] THEN a[3] < b[3]
    ELSE IF a[2] # b[2] THEN a[2] < b[2]
    ELSE a[1] < b[1]

\* a < b and a <= b, signed
Less(a, b) == IF IsNeg(a) # IsNeg(b) THEN IsNeg(a) ELSE ULess(a, b)

Leq(a, b) == ~Less(b, a)

\* a * k for 0 <= k <= 2^15, modulo 2^128
MulLimb(a, k) ==
    LET s1 == a[1] * k
        s2 == a[2] * k + (s1 \div Base)
        s3 == a[3] * k + (s2 \div Base)
        s4 == a[4] * k + (s3 \div Base)
        s5 == a[5] * k + (s4 \div Base)
        s6 == a[6] * k + (s5 \div Base)
        s7 == a[7] * k + (s6 \div Base)
        s8 == a[8] * k + (s7 \div Base)
    IN  <<s1 % Base, s2 % Base, s3 % Base, s4 % Base,
          s5 % Base, s6 % Base, s7 % Base, s8 % Base>>

\* a * k for 0 <= k < 2^30, modulo 2^128
Mul(a, k) ==
    IF k <= Half THEN MulLimb(a, k)
    ELSE Add(MulLimb(MulLimb(a, k \div Half), Half), MulLimb(a, k % Half))

\* the C++ integral conversions: the low bits, zero- or sign-extended
ToUInt64(a) == <<a[1], a[2], a[3], a[4], 0, 0, 0, 0>>

ToInt64(a) ==
    LET f == IF a[4] >= Half THEN Base - 1 ELSE 0
    IN  <<a[1], a[2], a[3], a[4], f, f, f, f>>

ToUInt32(a) == <<a[1], a[2], 0, 0, 0, 0, 0, 0>>

ToInt32(a) ==
    LET f == IF a[2] >= Half THEN Base - 1 ELSE 0
    IN  <<a[1], a[2], f, f, f, f, f, f>>

ToUInt16(a) == <<a[1], 0, 0, 0, 0, 0, 0, 0>>

\* whether 0 <= m < 2^30, and then m as an integer of the model checker
IsSmall(m) ==
    /\ m[2] < 2^14
    /\ m[3] = 0 /\ m[4] = 0 /\ m[5] = 0 /\ m[6] = 0 /\ m[7] = 0 /\ m[8] = 0

Small(m) == m[1] + m[2] * Base

\* the c bits of a from bit position p up (c divides 16)
Bits(a, p, c) == (a[(p \div 16) + 1] \div 2^(p % 16)) % 2^c

\* a mod m for a < 2^64 and 0 < m < 2^30: Horner's rule over the chunks of
\* c bits of a, the widest chunk that keeps r * 2^c + chunk below 2^31
ChunkBits(m) ==
    IF m <= 2^15 THEN 16 ELSE IF m <= 2^23 THEN 8 ELSE IF m <= 2^27 THEN 4
    ELSE IF m <= 2^29 THEN 2 ELSE 1

RECURSIVE ModChunks(_, _, _, _, _)
ModChunks(a, m, c, p, r) ==
    IF p < 0 THEN r
    ELSE LET r2 == (r * 2^c + Bits(a, p, c)) % m
         IN  IF r2 = 0 THEN ModChunks(a, m, c, p - c, 0)
             ELSE ModChunks(a, m, c, p - c, r2)

\* a mod m for a < 2^64 and any 0 < m < 2^64: binary long division
RECURSIVE ModBits(_, _, _, _)
ModBits(a, m, p, r) ==
    IF p < 0 THEN r
    ELSE LET r2 == AddCarry(r, r, Bits(a, p, 1))
         IN  IF ULess(r2, m) THEN ModBits(a, m, p - 1, r2)
             ELSE ModBits(a, m, p - 1, Sub(r2, m))

\* the C++ a % m on unsigned 64-bit operands, m # 0
UMod(a, m) ==
    IF ULess(a, m) THEN a
    ELSE IF IsSmall(m)
         THEN Wide(ModChunks(a, Small(m), ChunkBits(Small(m)), 64 - ChunkBits(Small(m)), 0))
         ELSE ModBits(a, m, 63, Zero)

(***************************************************************************)
(* The program's constants and the bounds of the model.                    *)
(***************************************************************************)
\* ADD_TIME(INTERVAL_KIND, INTERVAL): the unit's length in seconds
DaySeconds == 86400

HourSeconds == 3600

MinuteSeconds == 60

SecondSeconds == 1

\* TRANSFORM_SUBSECONDS / ADD_SUBSECONDS (INTERVAL_KIND, DEF_SCALE)
MillisecondScale == 3

MicrosecondScale == 6

NanosecondScale == 9

\* AddTime<Week>: days in a week
WeekDays == 7

\* interval lengths 1..MaxDelta (and their negations where delta is signed)
MaxDelta == 3

\* timestamps and day numbers within MaxOffset of each anchor value
MaxOffset == 1

\* DateTime64 carries 0..MaxScale decimal digits
MaxScale == 9

SubsecondKinds == {"Millisecond", "Microsecond", "Nanosecond"}

TimeKinds == {"Day", "Hour", "Minute", "Second"}

DEF_SCALE(k) ==
    CASE k = "Millisecond" -> MillisecondScale
      [] k = "Microsecond" -> MicrosecondScale
      [] k = "Nanosecond" -> NanosecondScale

INTERVAL(k) ==
    CASE k = "Day" -> DaySeconds
      [] k = "Hour" -> HourSeconds
      [] k = "Minute" -> MinuteSeconds
      [] k = "Second" -> SecondSeconds

\* DecimalUtils::scaleMultiplier<DateTime64>(n): 10^n as an Int64
scaleMultiplier(n) == 10^n

INT64_MIN == Neg(Pow2(63))

INT64_MAX == Sub(Pow2(63), One)

UINT32_MAX == Sub(Pow2(32), One)

Around(anchor) == {Add(anchor, Wide(n)) : n \in -MaxOffset..MaxOffset}

(***************************************************************************)
(* An execute() either returns a value or the process is killed by a trap  *)
(* (SIGFPE on an integer division by zero; the abort of a build with       *)
(* -fsanitize=undefined on a signed overflow in a function that is not     *)
(* NO_SANITIZE_UNDEFINED).  Where the C++ is undefined the outcomes are    *)
(* all those a build can produce.                                          *)
(***************************************************************************)
Returned(v) == [trap |-> "none", value |-> v]

Trapped(cause) == [trap |-> cause, value |-> Zero]

\* x % m on UInt64 operands.  m = 0 is undefined: a trap (x86-64 div), or
\* the dividend itself (AArch64: udiv yields 0, so x - 0 * m)
URem(x, m) ==
    IF m = Zero THEN {Trapped("division by zero"), Returned(x)}
    ELSE {Returned(UMod(x, m))}

\* TRANSFORM_SUBSECONDS: ToStartOfTransform<kind>::execute(Int64 t, UInt64 delta, UInt32 scale).
\* val and t are Int64 and delta is UInt64, so % and - are carried out on
\* UInt64 operands; the Int64 product t * multiplier is undefined when it
\* overflows (the function is not NO_SANITIZE_UNDEFINED): it wraps, or traps.
ToStartOfSubseconds(k, t, delta, scale) ==
    IF scale <= DEF_SCALE(k)
    THEN LET product == Mul(t, scaleMultiplier(DEF_SCALE(k) - scale))
             val == ToInt64(product)
             overflow == IF product # val THEN {Trapped("signed overflow")} ELSE {}
         IN  IF delta = One THEN {Returned(val)} \cup overflow
             ELSE {IF r.trap # "none" THEN r
                   ELSE Returned(ToInt64(Sub(ToUInt64(val), r.value))) :
                      r \in URem(ToUInt64(val), delta)} \cup overflow
    ELSE LET m == ToUInt64(Mul(delta, scaleMultiplier(scale - DEF_SCALE(k))))
         IN  {IF r.trap # "none" THEN r
              ELSE Returned(ToInt64(Sub(ToUInt64(t), r.value))) :
                 r \in URem(ToUInt64(t), m)}

\* ADD_SUBSECONDS: AddTime<kind>::execute(Int64 t, UInt64 delta, UInt32 scale),
\* NO_SANITIZE_UNDEFINED; the sum is formed in UInt64 and returned as Int64
AddSubseconds(k, t, delta, scale) ==
    IF scale < DEF_SCALE(k)
    THEN ToInt64(Add(ToUInt64(t),
                     ToUInt64(Mul(ToUInt64(delta), scaleMultiplier(DEF_SCALE(k) - scale)))))
    ELSE ToInt64(Add(ToUInt64(t),
                     ToUInt64(Mul(ToUInt64(delta), scaleMultiplier(scale - DEF_SCALE(k))))))

\* TRANSFORM_TIME and ToStartOfTransform<Day>: the DateLUT calls
\* toStartOf{Day,Hour,Minute,Second}Interval in UTC, t - (t mod (delta * unit_seconds)),
\* returned as UInt32.  (In UTC the bucket of delta days of toDayNum(t) starts there too.)
ToStartOfTime(k, t, delta) ==
    ToUInt32(Sub(t, UMod(t, Mul(ToUInt64(delta), INTERVAL(k)))))

\* AddTime with the unit's length left out: t + delta
AddTimeWithoutInterval(k, t, delta) ==
    ToUInt32(ToInt64(Add(ToUInt32(t), ToInt64(delta))))

\* AddTime clamped to the UInt32 range instead of wrapping around
AddTimeSaturating(k, t, delta) ==
    LET sum == Add(ToUInt32(t), Mul(ToInt64(delta), INTERVAL(k)))
    IN  IF Less(sum, Zero) THEN Zero
        ELSE IF Less(UINT32_MAX, sum) THEN UINT32_MAX
        ELSE sum

\* AddTime with the sign of the shift reversed: t - delta * INTERVAL
AddTimeBackwards(k, t, delta) ==
    ToUInt32(ToInt64(Sub(ToUInt32(t), ToInt64(Mul(ToInt64(delta), INTERVAL(k))))))

\* ADD_TIME: AddTime<kind>::execute(UInt32 t, Int64 delta, const DateLUTImpl &)
\*   { return static_cast<UInt32>(t + delta * INTERVAL); }   NO_SANITIZE_UNDEFINED
AddTime(k, t, delta) ==
    ToUInt32(ToInt64(Add(ToUInt32(t), ToInt64(Mul(ToInt64(delta), INTERVAL(k))))))

\* AddTime<Week>::execute(UInt16 d, UInt64 delta, const DateLUTImpl &)
\*   { return ExtendedDayNum(static_cast<Int32>(d + delta * 7)); }
AddWeek(d, delta) ==
    ToInt32(ToUInt64(Add(ToUInt16(d), ToUInt64(Mul(ToUInt64(delta), WeekDays)))))

\* HOP(t, hop_interval, window_interval): the latest hop-aligned start whose
\* window contains t, and the end one window_interval after it
Hop(k, t, hop_units, window_units) ==
    LET start == ToStartOfTime(k, t, hop_units)
    IN  <<start, AddTime(k, start, window_units)>>

(***************************************************************************)
(* The state: the constant arguments of a call (the interval's kind and    *)
(* length, the time column's scale), the rows it evaluates and what it has *)
(* computed for them.                                                      *)
(***************************************************************************)
VARIABLES
    kind,           \* IntervalKind of the interval arguments
    scale,          \* decimal scale of the time column (0 for DateTime)
    num_units,      \* the interval's length (hop_interval's for HOP)
    window_units,   \* HOP: window_interval's length
    t,              \* the row being evaluated (a timestamp; a day number for Week)
    t2,             \* the next row
    pc,             \* position of the evaluation
    signal,         \* what killed it, when it trapped
    wstart,         \* window start of t
    wend,           \* window end of t
    wstart2,        \* window start of t2
    wend2,          \* window end of t2
    again,          \* ToStartOfTransform of wstart
    end_again,      \* ToStartOfTransform of wend
    shift_units,    \* the signed delta given to AddTime
    shifted,        \* AddTime of t
    back            \* AddTime of shifted by -shift_units

vars == <<kind, scale, num_units, window_units, t, t2, pc, signal, wstart, wend,
          wstart2, wend2, again, end_again, shift_units, shifted, back>>

\* the scale of ToStartOfTransform's result: the finer of scale and DEF_SCALE
ResultScale == IF scale <= DEF_SCALE(kind) THEN DEF_SCALE(kind) ELSE scale

\* 1620000123456789, the microsecond timestamp of the documentation
ExampleMicros == Add(Mul(Wide(1620000123), 1000000), Wide(456789))

SubsecondTimes == Around(Zero) \cup {INT64_MIN, ExampleMicros}

SubsecondDeltas == {Wide(n) : n \in 1..MaxDelta} \cup {Wide(10), Wide(500), Pow2(58)}

InitSubsecond ==
    /\ kind \in SubsecondKinds
    /\ scale \in 0..MaxScale
    /\ num_units \in SubsecondDeltas
    /\ t \in SubsecondTimes
    /\ pc = "row1" /\ signal = "none"
    /\ window_units = Zero /\ t2 = Zero
    /\ wstart = Zero /\ wend = Zero /\ wstart2 = Zero /\ wend2 = Zero
    /\ again = Zero /\ end_again = Zero
    /\ shift_units = Zero /\ shifted = Zero /\ back = Zero

\* tumble, row 1: start = ToStartOfTransform(t, num_units, scale)
TumbleStart ==
    /\ pc = "row1"
    /\ \E o \in ToStartOfSubseconds(kind, t, num_units, scale) :
          IF o.trap # "none" THEN pc' = "trap1" /\ signal' = o.trap /\ wstart' = wstart
          ELSE pc' = "end1" /\ signal' = signal /\ wstart' = o.value
    /\ UNCHANGED <<kind, scale, num_units, window_units, t, t2, wend, wstart2,
                   wend2, again, end_again, shift_units, shifted, back>>

\* tumble, row 1: end = AddTime(start, num_units, scale)
TumbleEnd ==
    /\ pc = "end1"
    /\ wend' = AddSubseconds(kind, wstart, num_units, scale)
    /\ pc' = "retruncate"
    /\ UNCHANGED <<signal, kind, scale, num_units, window_units, t, t2, wstart, wstart2,
                   wend2, again, end_again, shift_units, shifted, back>>

\* ToStartOfTransform applied to the start and to the end of row 1's window,
\* each carried at the scale of the result
Retruncate ==
    /\ pc = "retruncate"
    /\ \E a \in ToStartOfSubseconds(kind, wstart, num_units, ResultScale),
          e \in ToStartOfSubseconds(kind, wend, num_units, ResultScale) :
          IF a.trap # "none" \/ e.trap # "none"
          THEN /\ pc' = "trap_again"
               /\ signal' = (IF a.trap # "none" THEN a.trap ELSE e.trap)
               /\ UNCHANGED <<again, end_again>>
          ELSE pc' = "row2" /\ again' = a.value /\ end_again' = e.value /\ signal' = signal
    /\ UNCHANGED <<kind, scale, num_units, window_units, t, t2, wstart, wend,
                   wstart2, wend2, shift_units, shifted, back>>

\* tumble, row 2: the next row of the column
TumbleStart2 ==
    /\ pc = "row2"
    /\ \E next \in SubsecondTimes :
          /\ t2' = next
          /\ \E o \in ToStartOfSubseconds(kind, next, num_units, scale) :
                IF o.trap # "none" THEN pc' = "trap2" /\ signal' = o.trap /\ wstart2' = wstart2
                ELSE pc' = "end2" /\ signal' = signal /\ wstart2' = o.value
    /\ UNCHANGED <<kind, scale, num_units, window_units, t, wstart, wend,
                   wend2, again, end_again, shift_units, shifted, back>>

TumbleEnd2 ==
    /\ pc = "end2"
    /\ wend2' = AddSubseconds(kind, wstart2, num_units, scale)
    /\ pc' = "done"
    /\ UNCHANGED <<signal, kind, scale, num_units, window_units, t, t2, wstart, wend,
                   wstart2, again, end_again, shift_units, shifted, back>>

\* AddTime(t, delta, scale) for a signed delta: a negative delta reaches the
\* UInt64 parameter as its two's complement
ShiftSubseconds ==
    /\ pc = "row1"
    /\ \E delta \in {num_units, Neg(num_units)} :
          /\ shift_units' = delta
          /\ shifted' = AddSubseconds(kind, t, ToUInt64(delta), scale)
    /\ pc' = "shifted"
    /\ UNCHANGED <<signal, kind, scale, num_units, window_units, t, t2, wstart, wend,
                   wstart2, wend2, again, end_again, back>>

NextSubsecond ==
    \/ TumbleStart
    \/ TumbleEnd
    \/ Retruncate
    \/ TumbleStart2
    \/ TumbleEnd2
    \/ ShiftSubseconds

SpecSubsecond == InitSubsecond /\ [][NextSubsecond]_vars

(***************************************************************************)
(* Sub-second units: tumbling windows, truncation and addition.            *)
(***************************************************************************)
\* x, carried at `scale`, expressed at the scale of the result (exact)
Rescale(x) == Mul(x, scaleMultiplier(ResultScale - scale))

RescaleFits(x) == ToInt64(Rescale(x)) = Rescale(x)

\* num_units units of `kind` expressed at the scale of the result (exact)
WindowSize == Mul(ToUInt64(num_units), scaleMultiplier(ResultScale - DEF_SCALE(kind)))

Retruncated == pc \in {"row2", "end2", "trap2", "done"}

\* C1: tumbling windows over a sub-second unit are disjoint: whenever t2, read
\* at the scale of the result, lies in [start1, end1), the window of t2
\* starts at start1 too.
C1_WindowsDisjoint ==
    pc = "done" =>
        ((Leq(wstart, Rescale(t2)) /\ Less(Rescale(t2), wend)) => wstart2 = wstart)

\* C2: a timestamp whose rescaling does not overflow lies in its own bucket:
\* ToStartOfTransform returns, and start <= t' < start + W.
C2_InOwnBucket ==
    (pc \notin {"row1", "shifted"} /\ RescaleFits(t)) =>
        /\ pc # "trap1"
        /\ Leq(wstart, Rescale(t))
        /\ Less(Rescale(t), Add(wstart, WindowSize))

\* C3: the end of a window, AddTime of an aligned start, is an aligned start:
\* truncating it again returns it unchanged.
C3_EndIsAligned == Retruncated => end_again = wend

\* C4: truncation is idempotent: ToStartOfTransform returns for every
\* timestamp, and applied to its own result returns that result.
C4_Idempotent ==
    /\ pc \notin {"trap1", "trap_again"}
    /\ Retruncated => again = wstart

\* C5: AddTime shifts t by exactly delta units of the kind: the distance
\* shifted - t at scale s is delta * 10^(-n) seconds, n the kind's own scale,
\* that is (shifted - t) * 10^n = delta * 10^s.
C5_ShiftsByDeltaUnits ==
    pc = "shifted" =>
        Mul(Sub(shifted, t), scaleMultiplier(DEF_SCALE(kind)))
            = Mul(shift_units, scaleMultiplier(scale))

\* C9: sub-second truncation and addition never trap for a delta >= 1, and
\* the modulus delta * 10^(scale - DEF_SCALE) of the truncation is never zero.
C9_NeverTraps ==
    /\ pc \notin {"trap1", "trap2", "trap_again"}
    /\ (pc \notin {"row1", "shifted"} /\ scale > DEF_SCALE(kind)) =>
          ToUInt64(Mul(num_units, scaleMultiplier(scale - DEF_SCALE(kind)))) # Zero

(***************************************************************************)
(* Day, Hour, Minute and Second over a DateTime (UInt32) column: tumbling  *)
(* and hopping windows, and AddTime with a signed delta.                   *)
(***************************************************************************)
\* 12:34:56 and 12:07:00 of the first day, and the ends of the UInt32 range
TimeValues ==
    {x \in Around(Zero) \cup Around(Wide(45296)) \cup {Wide(43620)} \cup Around(UINT32_MAX) :
        Leq(Zero, x) /\ Leq(x, UINT32_MAX)}

SignedDeltas ==
    {Wide(n) : n \in -MaxDelta..MaxDelta} \cup {Wide(5), Pow2(32), INT64_MIN, INT64_MAX}

WindowUnits == {Wide(n) : n \in 1..MaxDelta} \cup {Wide(15)}

InitTime ==
    /\ kind \in TimeKinds
    /\ scale = 0
    /\ num_units \in SignedDeltas
    /\ t \in TimeValues
    /\ pc = "row1" /\ signal = "none"
    /\ window_units = Zero /\ t2 = Zero
    /\ wstart = Zero /\ wend = Zero /\ wstart2 = Zero /\ wend2 = Zero
    /\ again = Zero /\ end_again = Zero
    /\ shift_units = Zero /\ shifted = Zero /\ back = Zero

\* tumble: start = ToStartOfTransform(t, num_units); a window size is positive
TumbleTimeStart ==
    /\ pc = "row1"
    /\ Less(Zero, num_units)
    /\ wstart' = ToStartOfTime(kind, t, num_units)
    /\ pc' = "end1"
    /\ UNCHANGED <<kind, scale, num_units, window_units, t, t2, signal, wend,
                   wstart2, wend2, again, end_again, shift_units, shifted, back>>

\* tumble: end = AddTime(start, num_units)
TumbleTimeEnd ==
    /\ pc = "end1"
    /\ wend' = AddTime(kind, wstart, num_units)
    /\ pc' = "done"
    /\ UNCHANGED <<kind, scale, num_units, window_units, t, t2, signal, wstart,
                   wstart2, wend2, again, end_again, shift_units, shifted, back>>

\* hop(t, hop_interval, window_interval), both intervals positive and of one kind
HopWindow ==
    /\ pc = "row1"
    /\ Less(Zero, num_units)
    /\ \E w \in WindowUnits :
          /\ window_units' = w
          /\ wstart' = Hop(kind, t, num_units, w)[1]
          /\ wend' = Hop(kind, t, num_units, w)[2]
    /\ pc' = "hop_done"
    /\ UNCHANGED <<kind, scale, num_units, t, t2, signal,
                   wstart2, wend2, again, end_again, shift_units, shifted, back>>

\* AddTime(t, delta) for a signed delta
ShiftTime ==
    /\ pc = "row1"
    /\ shift_units' = num_units
    /\ shifted' = AddTime(kind, t, num_units)
    /\ pc' = "shifted"
    /\ UNCHANGED <<kind, scale, num_units, window_units, t, t2, signal, wstart, wend,
                   wstart2, wend2, again, end_again, back>>

\* AddTime(shifted, -delta); the negation is Int64's
ShiftBack ==
    /\ pc = "shifted"
    /\ back' = AddTime(kind, shifted, ToInt64(Neg(shift_units)))
    /\ pc' = "shifted_back"
    /\ UNCHANGED <<kind, scale, num_units, window_units, t, t2, signal, wstart, wend,
                   wstart2, wend2, again, end_again, shift_units, shifted>>

NextTime ==
    \/ TumbleTimeStart
    \/ TumbleTimeEnd
    \/ HopWindow
    \/ ShiftTime
    \/ ShiftBack

SpecTime == InitTime /\ [][NextTime]_vars

(***************************************************************************)
(* Week: AddTime on day numbers (ExtendedDayNum, an Int32).                *)
(***************************************************************************)
\* day numbers around the epoch, around the ends of the UInt16 range, and the
\* Monday (-3) of the week of 1970-01-01
DayNumbers ==
    Around(Zero) \cup Around(Wide(-3)) \cup Around(Wide(65535)) \cup Around(Wide(19000))

InitWeek ==
    /\ kind = "Week"
    /\ scale = 0
    /\ num_units \in SignedDeltas
    /\ t \in DayNumbers
    /\ pc = "row1" /\ signal = "none"
    /\ window_units = Zero /\ t2 = Zero
    /\ wstart = Zero /\ wend = Zero /\ wstart2 = Zero /\ wend2 = Zero
    /\ again = Zero /\ end_again = Zero
    /\ shift_units = Zero /\ shifted = Zero /\ back = Zero

\* AddTime<Week>::execute(d, delta): a negative delta reaches the UInt64
\* parameter as its two's complement
ShiftWeek ==
    /\ pc = "row1"
    /\ shift_units' = num_units
    /\ shifted' = AddWeek(t, ToUInt64(num_units))
    /\ pc' = "shifted"
    /\ UNCHANGED <<kind, scale, num_units, window_units, t, t2, signal, wstart, wend,
                   wstart2, wend2, again, end_again, back>>

NextWeek == ShiftWeek

SpecWeek == InitWeek /\ [][NextWeek]_vars

(***************************************************************************)
(* Second-precision units: window boundaries, HOP, wraparound addition.    *)
(***************************************************************************)
\* num_units and window_units of `kind` in seconds (exact)
IntervalSeconds == Mul(num_units, INTERVAL(kind))

WindowSeconds == Mul(window_units, INTERVAL(kind))

\* C6 as stated: every tumbling window of a second-precision unit has
\* start < end, and end is start advanced by delta * unit_seconds.
C6_StartBeforeEnd ==
    pc = "done" =>
        /\ Less(wstart, wend)
        /\ wend = Add(wstart, IntervalSeconds)

\* C6 as amended: the same whenever start + delta * unit_seconds does not
\* pass the end of the UInt32 range, 2^32 - 1.
C6_StartBeforeEndInRange ==
    (pc = "done" /\ Leq(Add(wstart, IntervalSeconds), UINT32_MAX)) =>
        /\ Less(wstart, wend)
        /\ wend = Add(wstart, IntervalSeconds)

\* C6's case: unit Hour, delta 1, t = 12:34:56 gives [12:00:00, 13:00:00)
C6_Witness ==
    /\ pc = "done" /\ kind = "Hour" /\ num_units = One /\ t = Wide(45296)
    /\ wstart = Wide(43200) /\ wend = Wide(46800)

\* the parts of C7: the window contains t, starts hop-aligned, ends one
\* window_interval after its start, and no later hop-aligned start is <= t
HopContainment ==
    /\ Leq(wstart, t)
    /\ Less(t, Add(wstart, WindowSeconds))
    /\ wstart = ToStartOfTime(kind, wstart, num_units)
    /\ wend = Add(wstart, WindowSeconds)
    /\ Less(t, Add(wstart, IntervalSeconds))

C10_WraparoundUndone ==
    /\ pc \in {"shifted", "shifted_back"} =>
          shifted = ToUInt32(Add(t, Mul(shift_units, INTERVAL(kind))))
    /\ pc = "shifted_back" => back = t

\* C10's case: one hour back from the epoch wraps to 2^32 - 3600, and one
\* hour forward from there wraps back to 0
C10_Witness ==
    /\ pc = "shifted_back" /\ kind = "Hour" /\ t = Zero /\ shift_units = Wide(-1)
    /\ shifted = Sub(Pow2(32), Wide(3600)) /\ back = Zero

(***************************************************************************)
(* Week addition.                                                          *)
(***************************************************************************)
FitsInt32(x) == ToInt32(x) = x

\* C8: AddTime<Week>(d, delta) = d + 7 * delta as an Int32 day number, for
\* every day number d (pre-epoch and above 65535 included) and signed delta,
\* whenever the sum fits in 32 bits.
C8_WeekAddsSevenDays ==
    (pc = "shifted" /\ FitsInt32(Add(t, Mul(shift_units, WeekDays)))) =>
        shifted = Add(t, Mul(shift_units, WeekDays))

====
